---- MODULE Spec2Model ----
(***************************************************************************)
(* Model of the API agent of my_api_agent: the PocketFlow graph built by   *)
(* create_api_agent_flow (flow.py) and the six nodes of nodes.py, over the *)
(* shared store of main.py.  One action per node run (prep, exec, post).   *)
(*                                                                         *)
(* Text is a sequence of atoms (indivisible substrings), so that strip,    *)
(* replace, "in" and concatenation are computed as Python computes them.   *)
(* An optional value is None (<<>>) or Some(v) (<<v>>).                    *)
(***************************************************************************)
EXTENDS Integers, Sequences, FiniteSets, TLC

VARIABLES node, loaded_specs, sub_tasks, task_results, current_task_id,
          final_summary, raised, trace

vars == <<node, loaded_specs, sub_tasks, task_results, current_task_id,
          final_summary, raised, trace>>

shared == <<loaded_specs, sub_tasks, task_results, current_task_id, final_summary>>

\* ------------------------------------------------------------------ bounds
\* Longest decomposition response, in lines; also the largest task count.
MaxLines == 2

\* ------------------------------------------------------- optional values
None == <<>>

Some(x) == <<x>>

\* ------------------------------------------------------------------ text
WS == {" ", "\n"}

RECURSIVE LStripSet(_, _)
LStripSet(s, chars) ==
    IF s # <<>> /\ Head(s) \in chars THEN LStripSet(Tail(s), chars) ELSE s

RECURSIVE RStripSet(_, _)
RStripSet(s, chars) ==
    IF s # <<>> /\ s[Len(s)] \in chars
    THEN RStripSet(SubSeq(s, 1, Len(s) - 1), chars) ELSE s

\* str.strip(): leading and trailing whitespace removed
Strip(s) == RStripSet(LStripSet(s, WS), WS)

\* str.replace(old, new) for a non-empty old: leftmost, non-overlapping
RECURSIVE Replace(_, _, _)
Replace(s, old, new) ==
    IF Len(s) < Len(old) THEN s
    ELSE IF SubSeq(s, 1, Len(old)) = old
         THEN new \o Replace(SubSeq(s, Len(old) + 1, Len(s)), old, new)
         ELSE <<Head(s)>> \o Replace(Tail(s), old, new)

\* Mutant of HasLLMError: the marker is never recognised
HasLLMError_Never(s) == FALSE

\* '"LLM_ERROR" in text'
HasLLMError(s) == \E i \in 1..Len(s) : s[i] = "LLM_ERROR"

\* -------------------------------------------------- Language Collaborator
\* What the chat-completion API does for one call: it raises, or it returns
\* a message content.
Completion(raises, content) == [raises |-> raises, content |-> content]

\* call_llm: an exception of the API becomes the text "LLM_ERROR: <e>"
call_llm(c) ==
    IF c.raises THEN <<"LLM_ERROR", ": ", "api failure">> ELSE c.content

\* ---------------------------------------------------------------- engine
\* Mutant of Successor: ExecuteAPI's label leads back to FindAndPrepareApi
Successor_RunnerToPreparer(n, action) ==
    CASE n = "LoadAllSpecs" /\ action = "default" -> "DecomposeQuery"
      [] n = "DecomposeQuery" /\ action = "process_task" -> "SelectSpec"
      [] n = "SelectSpec" /\ action = "spec_selected" -> "FindAndPrepareApi"
      [] n = "SelectSpec" /\ action = "summarize" -> "SummarizeResults"
      [] n = "SelectSpec" /\ action = "process_task_loop" -> "SelectSpec"
      [] n = "FindAndPrepareApi" /\ action = "execute" -> "ExecuteAPI"
      [] n = "FindAndPrepareApi" /\ action = "process_task_loop" -> "SelectSpec"
      [] n = "ExecuteAPI" /\ action = "process_task_loop" -> "FindAndPrepareApi"
      [] OTHER -> "END"

\* Mutant of Successor: FindAndPrepareApi's process_task_loop has no edge
Successor_NoLoopEdge(n, action) ==
    CASE n = "LoadAllSpecs" /\ action = "default" -> "DecomposeQuery"
      [] n = "DecomposeQuery" /\ action = "process_task" -> "SelectSpec"
      [] n = "SelectSpec" /\ action = "spec_selected" -> "FindAndPrepareApi"
      [] n = "SelectSpec" /\ action = "summarize" -> "SummarizeResults"
      [] n = "SelectSpec" /\ action = "process_task_loop" -> "SelectSpec"
      [] n = "FindAndPrepareApi" /\ action = "execute" -> "ExecuteAPI"
      [] n = "ExecuteAPI" /\ action = "process_task_loop" -> "SelectSpec"
      [] OTHER -> "END"

\* Mutant of Successor: SelectSpec's retry edge leads to FindAndPrepareApi
Successor_LoopToPreparer(n, action) ==
    CASE n = "LoadAllSpecs" /\ action = "default" -> "DecomposeQuery"
      [] n = "DecomposeQuery" /\ action = "process_task" -> "SelectSpec"
      [] n = "SelectSpec" /\ action = "spec_selected" -> "FindAndPrepareApi"
      [] n = "SelectSpec" /\ action = "summarize" -> "SummarizeResults"
      [] n = "SelectSpec" /\ action = "process_task_loop" -> "FindAndPrepareApi"
      [] n = "FindAndPrepareApi" /\ action = "execute" -> "ExecuteAPI"
      [] n = "FindAndPrepareApi" /\ action = "process_task_loop" -> "SelectSpec"
      [] n = "ExecuteAPI" /\ action = "process_task_loop" -> "SelectSpec"
      [] OTHER -> "END"

\* The transitions registered in create_api_agent_flow; a label without an
\* edge ends the run.  A post() that returns None is routed as "default".
Successor(n, action) ==
    CASE n = "LoadAllSpecs" /\ action = "default" -> "DecomposeQuery"
      [] n = "DecomposeQuery" /\ action = "process_task" -> "SelectSpec"
      [] n = "SelectSpec" /\ action = "spec_selected" -> "FindAndPrepareApi"
      [] n = "SelectSpec" /\ action = "summarize" -> "SummarizeResults"
      [] n = "SelectSpec" /\ action = "process_task_loop" -> "SelectSpec"
      [] n = "FindAndPrepareApi" /\ action = "execute" -> "ExecuteAPI"
      [] n = "FindAndPrepareApi" /\ action = "process_task_loop" -> "SelectSpec"
      [] n = "ExecuteAPI" /\ action = "process_task_loop" -> "SelectSpec"
      [] OTHER -> "END"

\* What yaml.safe_load gives for the block of a reply: a mapping (with the
\* keys it holds), or something else.
Details(keys, method, path, server_base_url, parameters) ==
    [isdict |-> TRUE, keys |-> keys, method |-> method, path |-> path,
     server_base_url |-> server_base_url, parameters |-> parameters]

NotAMapping ==
    [isdict |-> FALSE, keys |-> {}, method |-> None, path |-> None,
     server_base_url |-> None, parameters |-> None]

\* What the network does for one request: no response at all (connection
\* error, timeout), or a response with a status and a body text.
Http(transport, status, body) ==
    [transport |-> transport, status |-> status, body |-> body]

\* What a node run received from its collaborator: the text call_llm
\* returned, the parsed YAML block of it, the network's answer.
Input(response, parsed, http) ==
    [called |-> TRUE, response |-> response, parsed |-> parsed, http |-> http]

NoInput ==
    [called |-> FALSE, response |-> <<>>, parsed |-> NotAMapping,
     http |-> Http(TRUE, 0, None)]

LlmInput(response) == Input(response, NotAMapping, Http(TRUE, 0, None))

\* What LoadAllSpecs received: the spec source of the shared store
LoadInput(spec_source) == [source |-> spec_source] @@ NoInput

\* Number of tasks with status "pending"
RECURSIVE PendingCount(_)
PendingCount(tasks) ==
    IF tasks = <<>> THEN 0
    ELSE (IF Head(tasks).status = "pending" THEN 1 ELSE 0) + PendingCount(Tail(tasks))

\* The record of one node run kept in trace.
Ran(n, action, in) ==
    [node |-> n, action |-> action, task |-> current_task_id',
     pending |-> PendingCount(sub_tasks), in |-> in]

\* One node run that finalized with an action label.
Step(n, action, in) ==
    /\ node' = Successor(n, action)
    /\ trace' = Append(trace, Ran(n, action, in))
    /\ raised' = None

\* One node run in which a phase raised: the exception leaves Flow.run.
Raise(n, phase, in) ==
    /\ node' = "FAILED"
    /\ trace' = Append(trace, Ran(n, "raise", in))
    /\ raised' = Some([node |-> n, phase |-> phase])

\* ----------------------------------------------------------- main.py
Init ==
    /\ node = "LoadAllSpecs"
    /\ loaded_specs = None
    /\ sub_tasks = <<>>
    /\ task_results = <<>>
    /\ current_task_id = None
    /\ final_summary = None
    /\ raised = None
    /\ trace = <<>>

\* ------------------------------------------------- utils/openapi_parser.py
\* A file of the spec source: its basename, and what opening it gives.
SpecFile(id, state) == [id |-> id, state |-> state]

ProductsId == <<"products.yaml">>

OrdersId == <<"orders.json">>

\* yaml.safe_load of a readable spec file: the title and the servers list.
ParsedContent(id) ==
    IF id = ProductsId
    THEN [title |-> "Product API",
          servers |-> <<[url |-> Some(<<"https://spec.example.com", "/">>)]>>]
    ELSE [title |-> "N/A", servers |-> <<>>]

\* The spec sources of the runs explored, each as the paths it names (the
\* paths of a list, the spec files found in a directory).
SpecSources ==
    { <<SpecFile(ProductsId, "ok"), SpecFile(<<"nonexistent.yaml">>, "missing"),
        SpecFile(OrdersId, "ok")>>,
      <<SpecFile(<<"broken.yaml">>, "unparsable")>>,
      <<SpecFile(<<"nonexistent.yaml">>, "missing")>>,
      <<>> }

\* Mutant of load_all_specs_from_source: every path named is stored
RECURSIVE load_all_specs_KeepsAll(_)
load_all_specs_KeepsAll(spec_files) ==
    IF spec_files = <<>> THEN <<>>
    ELSE LET f == Head(spec_files)
         IN load_all_specs_KeepsAll(Tail(spec_files))
            @@ (f.id :> [parsed |-> ParsedContent(f.id),
                         summary |-> <<"Spec: ">> \o f.id
                             \o <<" - Title: ", ParsedContent(f.id).title>>])

\* load_all_specs_from_source: missing files are skipped, a file that fails
\* to load or parse is skipped, the others are stored under their basename.
RECURSIVE load_all_specs_from_source(_)
load_all_specs_from_source(spec_files) ==
    IF spec_files = <<>> THEN <<>>
    ELSE LET f == Head(spec_files)
             rest == load_all_specs_from_source(Tail(spec_files))
         IN IF f.state = "ok"
            THEN rest @@ (f.id :> [parsed |-> ParsedContent(f.id),
                                   summary |-> <<"Spec: ">> \o f.id
                                       \o <<" - Title: ", ParsedContent(f.id).title>>])
            ELSE rest

\* ------------------------------------------------------------ LoadAllSpecs
LoadAllSpecs ==
    /\ node = "LoadAllSpecs"
    /\ \E spec_source \in SpecSources :
         LET exec_res == load_all_specs_from_source(spec_source)
         IN IF exec_res = <<>>
            THEN /\ UNCHANGED shared
                 /\ Raise("LoadAllSpecs", "exec", LoadInput(spec_source))
            ELSE /\ loaded_specs' = exec_res
                 /\ UNCHANGED <<sub_tasks, task_results, current_task_id, final_summary>>
                 /\ Step("LoadAllSpecs", "default", LoadInput(spec_source))

\* ---------------------------------------------------------- DecomposeQuery
Digits == {"1", "2", "7"}

RECURSIVE SkipWhile(_, _, _)
SkipWhile(s, p, chars) ==
    IF p <= Len(s) /\ s[p] \in chars THEN SkipWhile(s, p + 1, chars) ELSE p

RECURSIVE LineEnd(_, _)
LineEnd(s, p) == IF p <= Len(s) /\ s[p] # "\n" THEN LineEnd(s, p + 1) ELSE p

\* One attempt of the pattern ^\s*\d+\.\s*(.*) at position p.
MatchAt(s, p) ==
    LET a == SkipWhile(s, p, WS)
        b == SkipWhile(s, a, Digits)
    IN IF (p = 1 \/ s[p - 1] = "\n") /\ b > a /\ b <= Len(s) /\ s[b] = "."
       THEN LET c == SkipWhile(s, b + 1, WS)
                d == LineEnd(s, c)
            IN [ok |-> TRUE, group |-> SubSeq(s, c, d - 1), end |-> d]
       ELSE [ok |-> FALSE, group |-> <<>>, end |-> p]

\* re.findall(r"^\s*\d+\.\s*(.*)", raw_steps, re.MULTILINE), from position p
RECURSIVE FindAll(_, _)
FindAll(s, p) ==
    IF p > Len(s) THEN <<>>
    ELSE LET m == MatchAt(s, p)
         IN IF m.ok THEN <<m.group>> \o FindAll(s, m.end)
            ELSE FindAll(s, p + 1)

NewTask(id, description) ==
    [id |-> id, description |-> description, status |-> "pending",
     selected_spec_id |-> None, api_details |-> None, result |-> None,
     error |-> None]

\* Mutant of ParseTasks: a response without numbered lines gives no task
ParseTasks_NoFallback(exec_res) ==
    LET raw_steps == Strip(exec_res)
        steps == FindAll(raw_steps, 1)
    IN [i \in 1..Len(steps) |-> NewTask(i, Strip(steps[i]))]

\* Mutant of ParseTasks: an unparsed response becomes a task even when empty
ParseTasks_EmptyTask(exec_res) ==
    LET raw_steps == Strip(exec_res)
        steps == FindAll(raw_steps, 1)
    IN IF steps = <<>>
       THEN <<NewTask(1, raw_steps)>>
       ELSE [i \in 1..Len(steps) |-> NewTask(i, Strip(steps[i]))]

\* DecomposeQuery.post: the task list parsed from the response.
ParseTasks(exec_res) ==
    LET raw_steps == Strip(exec_res)
        steps == FindAll(raw_steps, 1)
    IN IF steps = <<>>
       THEN IF raw_steps # <<>> THEN <<NewTask(1, raw_steps)>> ELSE <<>>
       ELSE [i \in 1..Len(steps) |-> NewTask(i, Strip(steps[i]))]

\* The lines a decomposition response is made of.
ResponseLines ==
    { <<"1", ".", " ", "Get widget">>, <<"7", ".">>, <<"Sure!">> }

RECURSIVE JoinLines(_)
JoinLines(ls) ==
    IF ls = <<>> THEN <<>>
    ELSE IF Len(ls) = 1 THEN ls[1]
    ELSE ls[1] \o <<"\n">> \o JoinLines(Tail(ls))

DecomposeCompletions ==
    { Completion(TRUE, <<>>), Completion(FALSE, <<" ", "\n">>) } \cup
    { Completion(FALSE, JoinLines(ls)) :
        ls \in UNION { [1..k -> ResponseLines] : k \in 0..MaxLines } }

DecomposeQuery ==
    /\ node = "DecomposeQuery"
    /\ \E c \in DecomposeCompletions :
         LET llm_response == call_llm(c)
             tasks == ParseTasks(llm_response)
         IN IF HasLLMError(llm_response)
            THEN /\ UNCHANGED shared
                 /\ Raise("DecomposeQuery", "exec", LlmInput(llm_response))
            ELSE IF tasks = <<>>
            THEN /\ UNCHANGED shared
                 /\ Raise("DecomposeQuery", "post", LlmInput(llm_response))
            ELSE /\ sub_tasks' = tasks
                 /\ task_results' = <<>>
                 /\ UNCHANGED <<loaded_specs, current_task_id, final_summary>>
                 /\ Step("DecomposeQuery", "process_task", LlmInput(llm_response))

\* -------------------------------------------------------------- SelectSpec
\* Mutant of FirstPending: the scan stops at the first task it looks at
FirstPending_StopsAtFirst(tasks, i) ==
    IF i <= Len(tasks) /\ tasks[i].status = "pending" THEN i ELSE 0

\* Mutant of FirstPending: every task that is not completed counts as pending
RECURSIVE FirstPending_NotCompleted(_, _)
FirstPending_NotCompleted(tasks, i) ==
    IF i > Len(tasks) THEN 0
    ELSE IF tasks[i].status # "completed" THEN i
    ELSE FirstPending_NotCompleted(tasks, i + 1)

\* Mutant of FirstPending: the last pending task is taken
RECURSIVE FirstPending_TakesLast(_, _)
FirstPending_TakesLast(tasks, i) ==
    IF i > Len(tasks) THEN 0
    ELSE LET later == FirstPending_TakesLast(tasks, i + 1)
         IN IF later # 0 THEN later
            ELSE IF tasks[i].status = "pending" THEN i ELSE 0

\* SelectSpec.prep: index of the first task with status "pending", 0 when
\* there is none.
RECURSIVE FirstPending(_, _)
FirstPending(tasks, i) ==
    IF i > Len(tasks) THEN 0
    ELSE IF tasks[i].status = "pending" THEN i
    ELSE FirstPending(tasks, i + 1)

\* Mutant of TaskIndex: the first task is taken whatever the id
TaskIndex_AlwaysFirst(tasks, id, i) == IF tasks = <<>> THEN 0 ELSE 1

\* next((task for task in sub_tasks if task["id"] == id), None), as an index
RECURSIVE TaskIndex(_, _, _)
TaskIndex(tasks, id, i) ==
    IF i > Len(tasks) THEN 0
    ELSE IF tasks[i].id = id THEN i
    ELSE TaskIndex(tasks, id, i + 1)

SelectCompletions ==
    { Completion(TRUE, <<>>),
      Completion(FALSE, ProductsId),
      Completion(FALSE, <<" ">> \o OrdersId \o <<"\n">>),
      Completion(FALSE, <<"unknown.yaml">>) }

\* SelectSpec.exec: the spec id taken from the response
SelectExec(llm_response) ==
    IF HasLLMError(llm_response) THEN <<"SPEC_SELECTION_FAILED">>
    ELSE Strip(llm_response)

\* Mutant of SelectionInvalid: every id is rejected
SelectionInvalid_RejectsAll(selected_spec_id, specs) == TRUE

\* Mutant of SelectionInvalid: only the failure marker is rejected
SelectionInvalid_MarkerOnly(selected_spec_id, specs) ==
    selected_spec_id = <<"SPEC_SELECTION_FAILED">>

\* SelectSpec.post: is the id rejected
SelectionInvalid(selected_spec_id, specs) ==
    \/ selected_spec_id = <<"SPEC_SELECTION_FAILED">>
    \/ selected_spec_id \notin DOMAIN specs

\* Mutant of MarkError: the message is stored, the status is left as it was
MarkError_KeepsStatus(tasks, t, msg) ==
    [tasks EXCEPT ![t].error = Some(msg)]

\* current_task["status"] = "error"; current_task["error"] = msg
MarkError(tasks, t, msg) ==
    [tasks EXCEPT ![t].status = "error", ![t].error = Some(msg)]

SelectSpec ==
    /\ node = "SelectSpec"
    /\ LET i == FirstPending(sub_tasks, 1)
       IN IF i = 0
          THEN /\ UNCHANGED shared
               /\ Step("SelectSpec", "summarize", NoInput)
          ELSE /\ current_task_id' = Some(sub_tasks[i].id)
               /\ UNCHANGED <<loaded_specs, task_results, final_summary>>
               /\ IF loaded_specs = <<>>
                  THEN /\ UNCHANGED sub_tasks
                       /\ Raise("SelectSpec", "prep", NoInput)
                  ELSE \E c \in SelectCompletions :
                         LET llm_response == call_llm(c)
                             selected_spec_id == SelectExec(llm_response)
                             t == TaskIndex(sub_tasks, sub_tasks[i].id, 1)
                         IN IF SelectionInvalid(selected_spec_id, loaded_specs)
                            THEN /\ sub_tasks' = MarkError(sub_tasks, t,
                                         <<"Failed to select a valid spec. LLM response: ">>
                                         \o selected_spec_id)
                                 /\ Step("SelectSpec", "process_task_loop", LlmInput(llm_response))
                            ELSE /\ sub_tasks' = [sub_tasks EXCEPT
                                       ![t].selected_spec_id = Some(selected_spec_id)]
                                 /\ Step("SelectSpec", "spec_selected", LlmInput(llm_response))

\* ------------------------------------------------------- FindAndPrepareApi
\* A mapping (Python dict, YAML mapping) is a sequence of <<name, value>>
\* pairs in insertion order.
HasKey(d, name) == \E i \in 1..Len(d) : d[i][1] = name

FillMe == <<"<FILL_ME>">>

\* Mutant of Get: the default is returned whatever the mapping holds
Get_AlwaysDefault(m, k, default) == default

\* A group of keyed values of which some keys may be absent: dict.get
Get(m, k, default) == IF k \in m.keys THEN m[k] ELSE default

\* The 'parameters' mapping of the YAML block.
Parameters(keys, path, query, header, body) ==
    [keys |-> keys, path |-> path, query |-> query, header |-> header,
     body |-> body]

AllKeys == {"method", "path", "server_base_url", "parameters"}

AllGroups == {"path", "query", "header", "body"}

ItemsPath == <<"/", "items", "/", "{", "id", "}">>

JsonBody == [type |-> "dict", value |-> <<"{name: New Item}">>]

\* A structured body in which a value is the placeholder token
FillBody == [type |-> "dict", value |-> <<"{name: ", "<FILL_ME>", "}">>]

\* The text of a reply that holds a fenced YAML block.
FencedBlock == <<"Here are the details:", "\n", "[yaml block]">>

\* A reply of the Language Collaborator to the preparation prompt: the API
\* call's outcome, and the value yaml.safe_load yields for its YAML block.
PrepReply(c, parsed) == [completion |-> c, parsed |-> parsed]

PrepReplies ==
    { \* the API call fails
      PrepReply(Completion(TRUE, <<>>), NotAMapping),
      \* the reply holds no YAML mapping
      PrepReply(Completion(FALSE, <<"I could not find an endpoint.">>),
                NotAMapping),
      \* the block leaves out server_base_url
      PrepReply(Completion(FALSE, FencedBlock),
        Details(AllKeys \ {"server_base_url"}, Some(<<"get">>), Some(ItemsPath),
                None, Some(Parameters(AllGroups, Some(<<>>), Some(<<>>),
                                      Some(<<>>), None)))),
      \* a path parameter is left as the placeholder token
      PrepReply(Completion(FALSE, FencedBlock),
        Details(AllKeys, Some(<<"get">>), Some(ItemsPath),
                Some(<<"https://api.example.com">>),
                Some(Parameters(AllGroups, Some(<< <<"id", FillMe>> >>),
                                Some(<<>>), Some(<<>>), None)))),
      \* the second path parameter is left as the placeholder token
      PrepReply(Completion(FALSE, FencedBlock),
        Details(AllKeys, Some(<<"get">>), Some(ItemsPath), Some(<<>>),
                Some(Parameters(AllGroups,
                                Some(<< <<"id", <<"42">> >>, <<"sku", FillMe>> >>),
                                Some(<<>>), None, Some(JsonBody))))),
      \* every path parameter resolved; a query parameter, a header and a
      \* body value left as the token
      PrepReply(Completion(FALSE, FencedBlock),
        Details(AllKeys, Some(<<"get">>), Some(ItemsPath),
                Some(<<"https://api.example.com", "/">>),
                Some(Parameters(AllGroups, Some(<< <<"id", <<"42">> >> >>),
                                Some(<< <<"limit", FillMe>> >>),
                                Some(<< <<"X-Request-ID", FillMe>> >>),
                                Some(FillBody))))),
      \* the template names a parameter the mapping does not hold
      PrepReply(Completion(FALSE, FencedBlock),
        Details(AllKeys, Some(<<"post">>), Some(ItemsPath),
                Some(<<"https://api.example.com">>),
                Some(Parameters(AllGroups, Some(<<>>), Some(<<>>),
                                Some(<<>>), Some(JsonBody))))),
      \* header: null with a structured body; two slashes at the end of the
      \* base and at the start of the path
      PrepReply(Completion(FALSE, FencedBlock),
        Details(AllKeys, Some(<<"post">>), Some(<<"/", "/", "items">>),
                Some(<<"https://api.example.com", "/", "/">>),
                Some(Parameters(AllGroups, Some(<<>>), Some(<<>>),
                                None, Some(JsonBody))))),
      \* server_base_url: "" (the spec's servers list decides)
      PrepReply(Completion(FALSE, FencedBlock),
        Details(AllKeys, Some(<<"get">>), Some(<<"items">>), Some(<<>>),
                Some(Parameters({"path"}, Some(<<>>), None, None, None)))) }

UpperAtom(a) ==
    CASE a = "get" -> "GET" [] a = "post" -> "POST" [] OTHER -> a

\* str.upper()
Upper(s) == [i \in 1..Len(s) |-> UpperAtom(s[i])]

ErrorResult(msg) == [error |-> Some(msg), details |-> None]

\* Mutant of SubstitutePath: the placeholder token is substituted like any
\* other value
RECURSIVE SubstitutePath_NoTokenCheck(_, _)
SubstitutePath_NoTokenCheck(final_path, path_params) ==
    IF path_params = <<>> THEN [error |-> None, path |-> final_path]
    ELSE SubstitutePath_NoTokenCheck(
           Replace(Replace(final_path, <<"{", Head(path_params)[1], "}">>,
                           Head(path_params)[2]),
                   <<"{", "{", Head(path_params)[1], "}", "}">>,
                   Head(path_params)[2]),
           Tail(path_params))

\* The loop over path_params.items(): the placeholder token as a value
\* returns the error; otherwise {name} and then {{name}} are replaced.
RECURSIVE SubstitutePath(_, _)
SubstitutePath(final_path, path_params) ==
    IF path_params = <<>> THEN [error |-> None, path |-> final_path]
    ELSE LET name == Head(path_params)[1]
             value == Head(path_params)[2]
         IN IF value = FillMe
            THEN [error |-> Some(<<"Required path parameter '", name,
                                   "' could not be determined.">>),
                  path |-> final_path]
            ELSE SubstitutePath(
                   Replace(Replace(final_path, <<"{", name, "}">>, value),
                           <<"{", "{", name, "}", "}">>, value),
                   Tail(path_params))

\* Mutant of JoinUrl: the two parts are joined as they are
JoinUrl_AsIs(base_url, final_path) == base_url \o <<"/">> \o final_path

\* api_details["url"] = base_url.rstrip('/') + '/' + final_path.lstrip('/')
JoinUrl(base_url, final_path) ==
    RStripSet(base_url, {"/"}) \o <<"/">> \o LStripSet(final_path, {"/"})

\* Mutant of BaseUrl: the spec's servers list is not consulted
BaseUrl_NoFallback(parsed_details, parsed_spec) ==
    LET base_url == Get(parsed_details, "server_base_url", Some(<<>>))
    IN IF base_url # None /\ base_url[1] # <<>> THEN base_url ELSE None

\* Mutant of BaseUrl: a default stands in when no base URL is found
BaseUrl_Defaulted(parsed_details, parsed_spec) ==
    LET base_url == Get(parsed_details, "server_base_url", Some(<<>>))
    IN IF base_url # None /\ base_url[1] # <<>> THEN base_url
       ELSE IF parsed_spec.servers # <<>> /\ parsed_spec.servers[1].url # None
            THEN parsed_spec.servers[1].url
            ELSE Some(<<"http://localhost">>)

\* The base URL: the block's, or else the first server of the spec.
BaseUrl(parsed_details, parsed_spec) ==
    LET base_url == Get(parsed_details, "server_base_url", Some(<<>>))
    IN IF base_url # None /\ base_url[1] # <<>> THEN base_url
       ELSE IF parsed_spec.servers # <<>> /\ parsed_spec.servers[1].url # None
            THEN parsed_spec.servers[1].url
            ELSE None

\* FindAndPrepareApi.exec after the LLM call: the error dict or api_details.
PrepareExec(llm_response, parsed_details, parsed_spec) ==
    IF HasLLMError(llm_response)
    THEN ErrorResult(<<"LLM error during API detail extraction: ">> \o llm_response)
    ELSE IF ~parsed_details.isdict \/ ~(AllKeys \subseteq parsed_details.keys)
    THEN ErrorResult(<<"Error parsing LLM response: ",
                       "Parsed YAML from LLM is missing required keys.">>)
    ELSE IF parsed_details.parameters = None
    THEN ErrorResult(<<"Error parsing LLM response: ",
                       "Parsed 'parameters' key is not a dictionary.">>)
    ELSE LET parameters == parsed_details.parameters[1]
             base_url == BaseUrl(parsed_details, parsed_spec)
             path_params == Get(parameters, "path", Some(<<>>))
         IN IF parsed_details.method = None
            THEN ErrorResult(<<"Error parsing LLM response: ",
                               "'NoneType' object has no attribute 'upper'">>)
            ELSE IF base_url = None
            THEN ErrorResult(<<"Could not determine server base URL from LLM or spec.">>)
            ELSE IF path_params = None
            THEN ErrorResult(<<"Error substituting path parameters: ",
                               "'NoneType' object has no attribute 'items'">>)
            ELSE IF parsed_details.path = None
            THEN IF path_params[1] = <<>>
                 THEN ErrorResult(<<"Error parsing LLM response: ",
                                    "'NoneType' object has no attribute 'lstrip'">>)
                 ELSE IF Head(path_params[1])[2] = FillMe
                 THEN ErrorResult(SubstitutePath(<<>>, path_params[1]).error[1])
                 ELSE ErrorResult(<<"Error substituting path parameters: ",
                                    "'NoneType' object has no attribute 'replace'">>)
            ELSE LET sub == SubstitutePath(parsed_details.path[1], path_params[1])
                 IN IF sub.error # None THEN ErrorResult(sub.error[1])
                    ELSE [error |-> None,
                          details |-> Some(
                            [method |-> Upper(parsed_details.method[1]),
                             url |-> JoinUrl(base_url[1], sub.path),
                             headers |-> Get(parameters, "header", Some(<<>>)),
                             params |-> Get(parameters, "query", Some(<<>>)),
                             body |-> Get(parameters, "body", None)])]

\* FindAndPrepareApi.prep: a required field of the shared store is absent
PrepareFault ==
    \/ current_task_id = None
    \/ TaskIndex(sub_tasks, current_task_id[1], 1) = 0
    \/ LET task == sub_tasks[TaskIndex(sub_tasks, current_task_id[1], 1)]
       IN \/ task.selected_spec_id = None
          \/ task.selected_spec_id[1] = <<>>
          \/ task.selected_spec_id[1] \notin DOMAIN loaded_specs

\* Mutant of FindAndPrepareApi: prep takes the entry out of the catalog
FindAndPrepareApi_PopsSpec ==
    /\ node = "FindAndPrepareApi"
    /\ UNCHANGED <<task_results, current_task_id, final_summary>>
    /\ loaded_specs' =
         IF PrepareFault THEN loaded_specs
         ELSE LET t == TaskIndex(sub_tasks, current_task_id[1], 1)
              IN [id \in DOMAIN loaded_specs \ {sub_tasks[t].selected_spec_id[1]}
                    |-> loaded_specs[id]]
    /\ IF PrepareFault
       THEN /\ UNCHANGED sub_tasks
            /\ Raise("FindAndPrepareApi", "prep", NoInput)
       ELSE \E r \in PrepReplies :
              LET t == TaskIndex(sub_tasks, current_task_id[1], 1)
                  parsed_spec == loaded_specs[sub_tasks[t].selected_spec_id[1]].parsed
                  llm_response == call_llm(r.completion)
                  exec_res == PrepareExec(llm_response, r.parsed, parsed_spec)
                  in == Input(llm_response, r.parsed, Http(TRUE, 0, None))
              IN IF exec_res.error # None
                 THEN /\ sub_tasks' = MarkError(sub_tasks, t, exec_res.error[1])
                      /\ Step("FindAndPrepareApi", "process_task_loop", in)
                 ELSE IF exec_res.details[1].url = <<>>
                 THEN /\ sub_tasks' = MarkError(sub_tasks, t,
                            <<"Invalid API details prepared: ", "{...}">>)
                      /\ Step("FindAndPrepareApi", "process_task_loop", in)
                 ELSE /\ sub_tasks' = [sub_tasks EXCEPT
                            ![t].api_details = exec_res.details]
                      /\ Step("FindAndPrepareApi", "execute", in)

FindAndPrepareApi ==
    /\ node = "FindAndPrepareApi"
    /\ UNCHANGED <<loaded_specs, task_results, current_task_id, final_summary>>
    /\ IF PrepareFault
       THEN /\ UNCHANGED sub_tasks
            /\ Raise("FindAndPrepareApi", "prep", NoInput)
       ELSE \E r \in PrepReplies :
              LET t == TaskIndex(sub_tasks, current_task_id[1], 1)
                  parsed_spec == loaded_specs[sub_tasks[t].selected_spec_id[1]].parsed
                  llm_response == call_llm(r.completion)
                  exec_res == PrepareExec(llm_response, r.parsed, parsed_spec)
                  in == Input(llm_response, r.parsed, Http(TRUE, 0, None))
              IN IF exec_res.error # None
                 THEN /\ sub_tasks' = MarkError(sub_tasks, t, exec_res.error[1])
                      /\ Step("FindAndPrepareApi", "process_task_loop", in)
                 ELSE IF exec_res.details[1].url = <<>>
                 THEN /\ sub_tasks' = MarkError(sub_tasks, t,
                            <<"Invalid API details prepared: ", "{...}">>)
                      /\ Step("FindAndPrepareApi", "process_task_loop", in)
                 ELSE /\ sub_tasks' = [sub_tasks EXCEPT
                            ![t].api_details = exec_res.details]
                      /\ Step("FindAndPrepareApi", "execute", in)

\* ------------------------------------------------- utils/api_executor.py
HttpOutcomes ==
    { Http(FALSE, 200, Some(<<"{id: 42}">>)),
      Http(FALSE, 404, Some(<<"Not Found">>)),
      Http(FALSE, 304, Some(<<>>)),
      Http(TRUE, 0, None) }

\* response.raise_for_status(): HTTPError for 4xx and 5xx
RaisesForStatus(status) == 400 <= status /\ status < 600

\* execute_api_call: it raises, or returns the status_code/body/error dict;
\* headers is the (same) headers object after the call.
execute_api_call(api_details, http) ==
    LET headers == api_details.headers
        body_data == api_details.body
        isdict == body_data # None /\ body_data[1].type = "dict"
        result(s, b, e) == [status_code |-> s, body |-> b, error |-> e]
    IN IF api_details.url = <<>>
       THEN [raises |-> FALSE, headers |-> headers,
             result |-> result(None, None, Some(<<"API URL is missing">>))]
       ELSE IF isdict /\ headers = None
       THEN [raises |-> TRUE, headers |-> headers,
             result |-> result(None, None, None)]
       ELSE LET sent == IF isdict /\ ~HasKey(headers[1], "Content-Type")
                        THEN Some(Append(headers[1],
                                         <<"Content-Type", <<"application/json">> >>))
                        ELSE headers
            IN [raises |-> FALSE, headers |-> sent,
                result |->
                  IF http.transport
                  THEN result(None, Some(<<"connection failed">>),
                              Some(<<"Request failed: ", "connection failed">>))
                  ELSE IF RaisesForStatus(http.status)
                  THEN result(Some(http.status), http.body,
                              Some(<<"Request failed: ", ToString(http.status),
                                     " Error">>))
                  ELSE result(Some(http.status), http.body, None)]

\* -------------------------------------------------------------- ExecuteAPI
\* ExecuteAPI.prep: a required field of the shared store is absent
ExecuteFault ==
    \/ current_task_id = None
    \/ TaskIndex(sub_tasks, current_task_id[1], 1) = 0
    \/ LET task == sub_tasks[TaskIndex(sub_tasks, current_task_id[1], 1)]
       IN \/ task.api_details = None
          \/ task.api_details[1].url = <<>>

StatusOkFrom == 200

StatusOkBelow == 300

BodyShown == 200

\* Mutant of IsSuccess: the range of the status code is not tested
IsSuccess_NoRange(api_result) ==
    api_result.status_code # None /\ api_result.error = None

\* Mutant of IsSuccess: every status below 400 counts as a success
IsSuccess_Below400(api_result) ==
    /\ api_result.status_code # None
    /\ StatusOkFrom <= api_result.status_code[1]
    /\ api_result.status_code[1] < 400
    /\ api_result.error = None

\* ExecuteAPI.post: the success test
IsSuccess(api_result) ==
    /\ api_result.status_code # None
    /\ StatusOkFrom <= api_result.status_code[1]
    /\ api_result.status_code[1] < StatusOkBelow
    /\ api_result.error = None

\* str() of an optional text
Str(o) == IF o = None THEN <<"None">> ELSE o[1]

\* ExecuteAPI.post: the message stored on a failed task
FullError(api_result) ==
    <<"API Call Failed (Status: ",
      IF api_result.status_code = None THEN "None"
      ELSE ToString(api_result.status_code[1]),
      "): ">> \o Str(api_result.error) \o <<". Response Body: ">>
    \o SubSeq(Str(api_result.body), 1,
              IF Len(Str(api_result.body)) < BodyShown
              THEN Len(Str(api_result.body)) ELSE BodyShown)
    \o <<"...">>

\* ExecuteAPI.post, success: status, result and error of the task
MarkCompleted(tasks, t, body) ==
    [tasks EXCEPT ![t].status = "completed", ![t].result = body,
                  ![t].error = None]

\* Mutant of MarkFailed: the response body is kept as the task's result
MarkFailed_KeepsBody(tasks, t, api_result) ==
    [tasks EXCEPT ![t].status = "error", ![t].result = api_result.body,
                  ![t].error = Some(FullError(api_result))]

\* Mutant of MarkFailed: the error is stored, the task is left pending
MarkFailed_StaysPending(tasks, t, api_result) ==
    [tasks EXCEPT ![t].result = None,
                  ![t].error = Some(FullError(api_result))]

\* ExecuteAPI.post, failure: status, result and error of the task
MarkFailed(tasks, t, api_result) ==
    [tasks EXCEPT ![t].status = "error", ![t].result = None,
                  ![t].error = Some(FullError(api_result))]

\* ExecuteAPI.post, success: shared["task_results"][current_task_id] = body
StoreResult(results, id, body) == (id :> body) @@ results

ExecuteAPI ==
    /\ node = "ExecuteAPI"
    /\ UNCHANGED <<loaded_specs, current_task_id, final_summary>>
    /\ IF ExecuteFault
       THEN /\ UNCHANGED <<sub_tasks, task_results>>
            /\ Raise("ExecuteAPI", "prep", NoInput)
       ELSE \E http \in HttpOutcomes :
              LET t == TaskIndex(sub_tasks, current_task_id[1], 1)
                  api_details == sub_tasks[t].api_details[1]
                  call == execute_api_call(api_details, http)
                  api_result == call.result
                  after == Some([api_details EXCEPT !.headers = call.headers])
                  in == Input(<<>>, NotAMapping, http)
              IN IF call.raises
                 THEN /\ UNCHANGED <<sub_tasks, task_results>>
                      /\ Raise("ExecuteAPI", "exec", in)
                 ELSE IF IsSuccess(api_result)
                 THEN /\ sub_tasks' = MarkCompleted(
                            [sub_tasks EXCEPT ![t].api_details = after],
                            t, api_result.body)
                      /\ task_results' = StoreResult(task_results,
                            current_task_id[1], api_result.body)
                      /\ Step("ExecuteAPI", "process_task_loop", in)
                 ELSE /\ sub_tasks' = MarkFailed(
                            [sub_tasks EXCEPT ![t].api_details = after],
                            t, api_result)
                      /\ UNCHANGED task_results
                      /\ Step("ExecuteAPI", "process_task_loop", in)

\* -------------------------------------------------------- SummarizeResults
\* json.dumps of a response body
JsonDumps(body) == IF body = None THEN <<"null">> ELSE <<"\"">> \o body[1] \o <<"\"">>

\* Mutant of FormatResults: the blocks are put in the reverse order
RECURSIVE FormatResults_Reversed(_, _, _)
FormatResults_Reversed(tasks, results, i) ==
    IF i > Len(tasks) THEN <<>>
    ELSE LET rest == FormatResults_Reversed(tasks, results, i + 1)
         IN IF tasks[i].id \in DOMAIN results
            THEN (IF rest = <<>> THEN <<>> ELSE rest \o <<"\n\n">>)
                 \o <<"Task ", ToString(tasks[i].id), ": ">> \o tasks[i].description
                 \o <<"\nResult:\n">> \o JsonDumps(results[tasks[i].id])
            ELSE rest

\* SummarizeResults.prep: one block per task that has an entry in
\* task_results, in the order of sub_tasks, joined by blank lines.
RECURSIVE FormatResults(_, _, _)
FormatResults(tasks, results, i) ==
    IF i > Len(tasks) THEN <<>>
    ELSE LET rest == FormatResults(tasks, results, i + 1)
         IN IF tasks[i].id \in DOMAIN results
            THEN <<"Task ", ToString(tasks[i].id), ": ">> \o tasks[i].description
                 \o <<"\nResult:\n">> \o JsonDumps(results[tasks[i].id])
                 \o (IF rest = <<>> THEN <<>> ELSE <<"\n\n">> \o rest)
            ELSE rest

FormattedResultsStr(tasks, results) ==
    IF DOMAIN results = {} THEN <<"No successful task results were obtained.">>
    ELSE IF FormatResults(tasks, results, 1) = <<>>
    THEN <<"No successful task results found to format (check task_results structure).">>
    ELSE FormatResults(tasks, results, 1)

SummaryCompletions ==
    { Completion(TRUE, <<>>),
      Completion(FALSE, <<"The widget is 42.">>),
      Completion(FALSE, <<>>) }

\* Mutant of SummarizeExec: the response is the summary whatever it holds
SummarizeExec_NoFallback(llm_response, formatted_results_str) == llm_response

\* SummarizeResults.exec: the summary, or the fallback on an LLM error
SummarizeExec(llm_response, formatted_results_str) ==
    IF HasLLMError(llm_response)
    THEN <<"Could not generate summary due to LLM error. Results obtained: ">>
         \o formatted_results_str
    ELSE llm_response

SummarizeResults ==
    /\ node = "SummarizeResults"
    /\ \E c \in SummaryCompletions :
         /\ final_summary' = Some(SummarizeExec(call_llm(c),
                                    FormattedResultsStr(sub_tasks, task_results)))
         /\ UNCHANGED <<loaded_specs, sub_tasks, task_results, current_task_id>>
         /\ Step("SummarizeResults", "default", LlmInput(call_llm(c)))

Next ==
    \/ LoadAllSpecs
    \/ DecomposeQuery
    \/ SelectSpec
    \/ FindAndPrepareApi
    \/ ExecuteAPI
    \/ SummarizeResults

Spec == Init /\ [][Next]_vars

\* The engine runs the next node whenever there is one.
FairSpec == Spec /\ WF_vars(Next)

\* ======================================================== checked properties
Finished(status) == status \in {"completed", "error"}

LoopNodes == {"SelectSpec", "FindAndPrepareApi", "ExecuteAPI"}

\* The runs of node n recorded so far, as positions of trace
Runs(n) == {k \in DOMAIN trace : trace[k].node = n}

\* The task with the given id
TaskById(id) == sub_tasks[TaskIndex(sub_tasks, id, 1)]

\* The task that was current in the k-th node run
TaskOfRun(k) == TaskById(trace[k].task[1])

\* The node that ran after the k-th node run, or is to run next
NodeAfter(k) == IF k < Len(trace) THEN trace[k + 1].node ELSE node

\* C1: when the run has reached the terminal action (SummarizeResults has
\* finalized and the flow has ended), every task is completed or error;
\* none is pending.
C1_NoPendingAtTerminal ==
    node = "END" => \A i \in DOMAIN sub_tasks : Finished(sub_tasks[i].status)

C1_Witness ==
    /\ node = "END"
    /\ Len(sub_tasks) >= 2
    /\ \E i \in DOMAIN sub_tasks : sub_tasks[i].status = "completed"
    /\ \E i \in DOMAIN sub_tasks : sub_tasks[i].status = "error"

\* C2: once the catalog holds an entry and decomposition has produced a
\* task, the run eventually reaches SummarizeResults and stores a final
\* answer, whatever the outcomes of the tasks.
C2_AlwaysSynthesizes ==
    [](loaded_specs # <<>> /\ sub_tasks # <<>>
         => <>(node = "END" /\ final_summary # None))

\* C3: no fault leaves SelectSpec, FindAndPrepareApi or ExecuteAPI, and a
\* task that failed carries a non-empty cause.
C3_NoFaultInTaskLoop ==
    /\ raised = None \/ raised[1].node \notin LoopNodes
    /\ \A i \in DOMAIN sub_tasks :
         sub_tasks[i].status = "error"
           => sub_tasks[i].error # None /\ sub_tasks[i].error[1] # <<>>

\* C4: with N tasks, SelectSpec runs at most N+1 times and its self-loop is
\* taken at most N times; the number of pending tasks is strictly smaller at
\* each later run of SelectSpec; the task loop takes at most 3N+1 node runs.
C4_BoundedLoop ==
    LET N == Len(sub_tasks)
        S == Runs("SelectSpec")
    IN /\ Cardinality(S) <= N + 1
       /\ Cardinality({k \in S : trace[k].action = "process_task_loop"}) <= N
       /\ \A j, k \in S : j < k => trace[k].pending < trace[j].pending
       /\ Cardinality({k \in DOMAIN trace : trace[k].node \in LoopNodes})
            <= 3 * N + 1

C4_Witness ==
    /\ node = "END"
    /\ Len(sub_tasks) >= 2
    /\ Cardinality(Runs("SelectSpec")) = Len(sub_tasks) + 1
    /\ \E k \in Runs("SelectSpec") : trace[k].action = "process_task_loop"
    /\ \E k \in Runs("SelectSpec") : trace[k].action = "spec_selected"

\* C5: a task's status changes only from pending to completed or from
\* pending to error; a completed or error task keeps its status.
C5_StatusMonotonic ==
    [][\A i \in DOMAIN sub_tasks :
         /\ i \in DOMAIN sub_tasks'
         /\ sub_tasks'[i].status # sub_tasks[i].status
              => /\ sub_tasks[i].status = "pending"
                 /\ Finished(sub_tasks'[i].status)]_vars

C5_Witness ==
    /\ node = "SelectSpec"
    /\ \E i \in DOMAIN sub_tasks : sub_tasks[i].status = "completed"
    /\ \E i \in DOMAIN sub_tasks : sub_tasks[i].status = "error"

\* C6: for every task: pending implies no result and no error message; an
\* error message is present exactly when the status is error; a result is
\* present only when the status is completed; never both.
C6_ResultErrorExclusive ==
    \A i \in DOMAIN sub_tasks :
      LET task == sub_tasks[i]
      IN /\ task.status \in {"pending", "completed", "error"}
         /\ task.status = "pending" => task.result = None /\ task.error = None
         /\ task.error # None <=> task.status = "error"
         /\ task.result # None => task.status = "completed"
         /\ ~(task.result # None /\ task.error # None)

C6_Witness ==
    /\ \E i \in DOMAIN sub_tasks :
         sub_tasks[i].status = "completed" /\ sub_tasks[i].result # None
    /\ \E i \in DOMAIN sub_tasks :
         sub_tasks[i].status = "error" /\ sub_tasks[i].error # None
                                       /\ sub_tasks[i].result = None

\* A brace-delimited placeholder or the unresolved-value token in a URL
HasPlaceholder(url) ==
    \/ \E i \in DOMAIN url : url[i] = "<FILL_ME>"
    \/ \E i, j \in DOMAIN url : i < j /\ url[i] = "{" /\ url[j] = "}"

\* C7: no URL stored for (and handed to) ExecuteAPI contains an unresolved
\* placeholder.
C7_NoPlaceholderForwarded ==
    \A i \in DOMAIN sub_tasks :
      sub_tasks[i].api_details # None
        => ~HasPlaceholder(sub_tasks[i].api_details[1].url)

\* The reply of a FindAndPrepareApi run holds a path parameter whose value
\* is the placeholder token
FillMePathParam(in) ==
    /\ ~HasLLMError(in.response)
    /\ in.parsed.isdict
    /\ "parameters" \in in.parsed.keys
    /\ in.parsed.parameters # None
    /\ "path" \in in.parsed.parameters[1].keys
    /\ in.parsed.parameters[1].path # None
    /\ \E p \in DOMAIN in.parsed.parameters[1].path[1] :
         in.parsed.parameters[1].path[1][p][2] = FillMe

\* C8: a FindAndPrepareApi run whose reply holds a path parameter with the
\* placeholder token as value marks the task error, stores no api_details,
\* routes to SelectSpec, and ExecuteAPI never runs for that task.
C8_FillMePathFails ==
    \A k \in Runs("FindAndPrepareApi") :
      trace[k].in.called /\ FillMePathParam(trace[k].in)
        => /\ trace[k].action = "process_task_loop"
           /\ NodeAfter(k) = "SelectSpec"
           /\ TaskOfRun(k).status = "error"
           /\ TaskOfRun(k).error # None
           /\ TaskOfRun(k).api_details = None
           /\ \A e \in Runs("ExecuteAPI") : trace[e].task # trace[k].task

C8_Witness ==
    \E k \in Runs("FindAndPrepareApi") :
      /\ trace[k].in.called /\ FillMePathParam(trace[k].in)
      /\ Len(trace[k].in.parsed.parameters[1].path[1]) = 2
      /\ node = "END"

\* The outcome the claims C9 require of a SelectSpec run that rejects
Rejected(k) ==
    /\ trace[k].action = "process_task_loop"
    /\ NodeAfter(k) = "SelectSpec"
    /\ TaskOfRun(k).status = "error"
    /\ TaskOfRun(k).error # None /\ TaskOfRun(k).error[1] # <<>>
    /\ TaskOfRun(k).selected_spec_id = None

\* C9 as stated: a SelectSpec response that is a failure or is not exactly
\* a loaded catalog id marks the task error, stores no id, and SelectSpec
\* runs next.
C9_NotExactIdRejected ==
    \A k \in Runs("SelectSpec") :
      /\ trace[k].in.called
      /\ HasLLMError(trace[k].in.response)
           \/ trace[k].in.response \notin DOMAIN loaded_specs
      => Rejected(k)

\* C9 amended: a SelectSpec response that is a failure, or that after
\* removing leading and trailing whitespace is not a loaded catalog id,
\* marks the task error with a message, stores no id, and SelectSpec runs
\* next.
C9_NotIdAfterStripRejected ==
    \A k \in Runs("SelectSpec") :
      /\ trace[k].in.called
      /\ HasLLMError(trace[k].in.response)
           \/ Strip(trace[k].in.response) \notin DOMAIN loaded_specs
      => Rejected(k)

C9_Witness ==
    \E j, k \in Runs("SelectSpec") :
      /\ trace[j].in.called /\ HasLLMError(trace[j].in.response)
      /\ trace[k].in.called /\ trace[k].in.response = <<"unknown.yaml">>
      /\ Rejected(j) /\ Rejected(k)

\* The network's answer is no success: no response, or a status not in
\* 200..299
HttpFailure(http) == http.transport \/ http.status < 200 \/ http.status > 299

\* C10: task_results has an entry for a task id exactly when that task is
\* completed, and the entry is the task's result; a task whose request
\* failed (e.g. status 404) is error and has no entry.
C10_ResultsMatchCompleted ==
    /\ \A i \in DOMAIN sub_tasks :
         /\ sub_tasks[i].id \in DOMAIN task_results
              <=> sub_tasks[i].status = "completed"
         /\ sub_tasks[i].id \in DOMAIN task_results
              => task_results[sub_tasks[i].id] = sub_tasks[i].result
    /\ \A id \in DOMAIN task_results : TaskIndex(sub_tasks, id, 1) # 0
    /\ \A k \in Runs("ExecuteAPI") :
         trace[k].action # "raise" /\ HttpFailure(trace[k].in.http)
           => /\ TaskOfRun(k).status = "error"
              /\ trace[k].task[1] \notin DOMAIN task_results

C10_Witness ==
    /\ \E k \in Runs("ExecuteAPI") :
         /\ trace[k].action # "raise"
         /\ trace[k].in.http.status = 404
    /\ \E i \in DOMAIN sub_tasks :
         /\ sub_tasks[i].status = "completed"
         /\ sub_tasks[i].id \in DOMAIN task_results
    /\ node = "END"

\* The RequestOutcome execute_api_call returned in the k-th node run (an
\* ExecuteAPI run that did not raise)
Outcome(k) ==
    execute_api_call(TaskOfRun(k).api_details[1], trace[k].in.http).result

\* C11: ExecuteAPI marks the task completed exactly when the outcome has a
\* status code, the code is in 200..299 and the error field is unset; for
\* every other outcome it marks the task error.
C11_CompletedIffSuccess ==
    \A k \in Runs("ExecuteAPI") :
      trace[k].in.called /\ trace[k].action # "raise"
        => LET o == Outcome(k)
               good == /\ o.status_code # None
                       /\ o.status_code[1] >= 200 /\ o.status_code[1] <= 299
                       /\ o.error = None
           IN /\ good => TaskOfRun(k).status = "completed"
              /\ ~good => TaskOfRun(k).status = "error"

C11_Witness ==
    /\ \E k \in Runs("ExecuteAPI") :
         /\ trace[k].action # "raise"
         /\ Outcome(k).status_code = Some(304) /\ Outcome(k).error = None
         /\ TaskOfRun(k).status = "error"
    /\ \E k \in Runs("ExecuteAPI") :
         /\ trace[k].action # "raise"
         /\ Outcome(k).status_code = Some(200)
         /\ TaskOfRun(k).status = "completed"

\* The lines of a text: the pieces between its line breaks
RECURSIVE SplitLines(_)
SplitLines(s) ==
    LET e == LineEnd(s, 1)
    IN IF e > Len(s) THEN <<s>>
       ELSE <<SubSeq(s, 1, e - 1)>> \o SplitLines(SubSeq(s, e + 1, Len(s)))

\* The text after the "<integer>." a line starts with (empty when nothing
\* follows the dot), None for a line that does not start that way
NumberedText(line) ==
    LET a == SkipWhile(line, 1, WS \ {"\n"})
        b == SkipWhile(line, a, Digits)
    IN IF b > a /\ b <= Len(line) /\ line[b] = "."
       THEN Some(Strip(SubSeq(line, b + 1, Len(line))))
       ELSE None

\* The texts of the numbered lines of a response, in document order
NumberedTexts(response) ==
    LET ls == SplitLines(response)
    IN SelectSeq([i \in 1..Len(ls) |-> NumberedText(ls[i])],
                 LAMBDA t : t # None)

\* C12: a decomposition response with k >= 1 lines of the form
\* "<integer>. <text>" yields exactly k tasks, in document order, with ids
\* 1..k whatever integers were written, each description the text of its
\* line, status pending and every other field absent.  A numbered line with
\* nothing after the dot may or may not count as a line: the tasks with a
\* non-empty description must be exactly the lines with a non-empty text.
C12_OneTaskPerNumberedLine ==
    \A k \in Runs("DecomposeQuery") :
      LET texts == NumberedTexts(trace[k].in.response)
          full  == SelectSeq(texts, LAMBDA t : t[1] # <<>>)
          described == SelectSeq(sub_tasks, LAMBDA t : t.description # <<>>)
      IN trace[k].in.called /\ Len(full) >= 1 /\ trace[k].action # "raise"
           => /\ Len(sub_tasks) \in Len(full)..Len(texts)
              /\ Len(described) = Len(full)
              /\ \A i \in 1..Len(full) : described[i].description = full[i][1]
              /\ \A i \in 1..Len(sub_tasks) :
                   /\ sub_tasks[i].id = i
                   /\ Len(trace) = k
                        => sub_tasks[i] = NewTask(i, sub_tasks[i].description)

\* C13: when the decomposition response is empty or only whitespace, the
\* run fails at DecomposeQuery: SelectSpec is never entered, no answer is
\* stored, and the task list and the result mapping are as they were before
\* DecomposeQuery ran.
C13_EmptyDecompositionFatal ==
    \A k \in Runs("DecomposeQuery") :
      trace[k].in.called /\ Strip(trace[k].in.response) = <<>>
        => /\ trace[k].action = "raise"
           /\ Len(trace) = k
           /\ node = "FAILED"
           /\ raised = Some([node |-> "DecomposeQuery", phase |-> "post"])
           /\ Runs("SelectSpec") = {}
           /\ final_summary = None
           /\ sub_tasks = <<>>
           /\ task_results = <<>>

C13_Witness ==
    /\ node = "FAILED"
    /\ \E k \in Runs("DecomposeQuery") :
         /\ trace[k].in.called
         /\ trace[k].in.response # <<>>
         /\ Strip(trace[k].in.response) = <<>>

Slashes(m) == [i \in 1..m |-> "/"]

\* The base URL and the resolved path FindAndPrepareApi joined in its k-th
\* node run (a run that stored api_details)
JoinedBase(k) ==
    BaseUrl(trace[k].in.parsed,
            loaded_specs[TaskOfRun(k).selected_spec_id[1]].parsed)[1]

JoinedPath(k) ==
    SubstitutePath(trace[k].in.parsed.path[1],
                   Get(trace[k].in.parsed.parameters[1], "path",
                       Some(<<>>))[1]).path

\* url is base and path joined by exactly one slash: it splits at a slash
\* into the base without its trailing slashes and the path without its
\* leading slashes
OneSlashJoin(url, base, path) ==
    \E j \in 1..Len(url) :
      LET b == SubSeq(url, 1, j - 1)
          p == SubSeq(url, j + 1, Len(url))
      IN /\ url[j] = "/"
         /\ b = <<>> \/ b[Len(b)] # "/"
         /\ p = <<>> \/ p[1] # "/"
         /\ \E m \in 0..Len(base) : base = b \o Slashes(m)
         /\ \E m \in 0..Len(path) : path = Slashes(m) \o p

\* C14: the URL FindAndPrepareApi stores is the base URL and the resolved
\* path joined by exactly one slash, whatever the number of slashes at the
\* end of the base and at the start of the path; base
\* 'https://api.example.com/' and path '/items/{id}' with id 42 give
\* 'https://api.example.com/items/42'.
C14_JoinedByOneSlash ==
    \A k \in Runs("FindAndPrepareApi") :
      trace[k].action = "execute"
        => LET url == TaskOfRun(k).api_details[1].url
               d == trace[k].in.parsed
           IN /\ OneSlashJoin(url, JoinedBase(k), JoinedPath(k))
              /\ ( /\ d.server_base_url = Some(<<"https://api.example.com", "/">>)
                   /\ d.path = Some(ItemsPath)
                   /\ d.parameters[1].path = Some(<< <<"id", <<"42">> >> >>) )
                 => url = <<"https://api.example.com", "/", "items", "/", "42">>

\* URLs were built from a base ending in two slashes with a path starting
\* with two, and from a base ending in one slash with a path starting with
\* none
C14_Witness ==
    /\ \E k \in Runs("FindAndPrepareApi") :
         /\ trace[k].action = "execute"
         /\ JoinedBase(k) = <<"https://api.example.com", "/", "/">>
         /\ JoinedPath(k) = <<"/", "/", "items">>
         /\ TaskOfRun(k).api_details[1].url
              = <<"https://api.example.com", "/", "items">>
    /\ \E k \in Runs("FindAndPrepareApi") :
         /\ trace[k].action = "execute"
         /\ JoinedBase(k) = <<"https://spec.example.com", "/">>
         /\ JoinedPath(k) = <<"items">>
         /\ TaskOfRun(k).api_details[1].url
              = <<"https://spec.example.com", "/", "items">>

\* C15: whenever the run has reached the terminal action, the final answer
\* is present and is a non-empty string, whatever the Language Collaborator
\* answered to the synthesis prompt (a text, an empty text, the error
\* marker) and also when no task produced a result.
C15_AnswerNonEmptyAtTerminal ==
    node = "END" => final_summary # None /\ final_summary[1] # <<>>

\* C16: SummarizeResults never fails the run; when the Language
\* Collaborator reports a failure for the synthesis prompt, the stored answer
\* is the fallback message followed by the formatted results, and the run
\* ends normally at the terminal action.
C16_SynthesisNeverFails ==
    \A k \in Runs("SummarizeResults") :
      /\ trace[k].action = "default"
      /\ Len(trace) = k /\ node = "END" /\ raised = None
      /\ (\E i \in 1..Len(trace[k].in.response) :
            trace[k].in.response[i] = "LLM_ERROR")
           => final_summary = Some(
                <<"Could not generate summary due to LLM error. Results obtained: ">>
                \o FormattedResultsStr(sub_tasks, task_results))

\* The synthesis call failed after a task had produced a result
C16_Witness ==
    /\ node = "END"
    /\ DOMAIN task_results # {}
    /\ \E k \in Runs("SummarizeResults") :
         \E i \in 1..Len(trace[k].in.response) :
           trace[k].in.response[i] = "LLM_ERROR"

\* The response of the Language Collaborator carries the error marker
CarriesMarker(response) ==
    \E i \in 1..Len(response) : response[i] = "LLM_ERROR"

\* The node runs in which node n called the Language Collaborator and got a
\* response that carries the error marker
MarkerRuns(n) ==
    {k \in Runs(n) : trace[k].in.called /\ CarriesMarker(trace[k].in.response)}

\* C17 (as stated): a response that carries the error marker is consumed as
\* an ordinary return value by every node that calls the Language
\* Collaborator (DecomposeQuery, SelectSpec, FindAndPrepareApi,
\* SummarizeResults); in none of them does it unwind as an exception.
C17_MarkerNeverUnwinds ==
    \A n \in {"DecomposeQuery", "SelectSpec", "FindAndPrepareApi",
              "SummarizeResults"} :
      \A k \in MarkerRuns(n) : trace[k].action # "raise"

\* C17 (amended): SelectSpec, FindAndPrepareApi and SummarizeResults consume
\* a response that carries the error marker as a value (the task is marked
\* error and the loop goes on; the fallback answer is stored); DecomposeQuery
\* raises on it and the run ends.
C17_MarkerIsDataAfterDecomposition ==
    /\ \A n \in {"SelectSpec", "FindAndPrepareApi"} :
         \A k \in MarkerRuns(n) :
           /\ trace[k].action = "process_task_loop"
           /\ TaskOfRun(k).status = "error" /\ TaskOfRun(k).error # None
           /\ NodeAfter(k) = "SelectSpec"
    /\ \A k \in MarkerRuns("SummarizeResults") : trace[k].action = "default"
    /\ \A k \in MarkerRuns("DecomposeQuery") :
         /\ trace[k].action = "raise"
         /\ Len(trace) = k /\ node = "FAILED"
         /\ raised = Some([node |-> "DecomposeQuery", phase |-> "exec"])

\* One run in which all three consumers received the marker
C17_Witness ==
    /\ node = "END"
    /\ MarkerRuns("SelectSpec") # {}
    /\ MarkerRuns("FindAndPrepareApi") # {}
    /\ MarkerRuns("SummarizeResults") # {}

\* The ids of the files of a spec source that exist and parse
UsableIds(spec_source) ==
    {spec_source[i].id : i \in {j \in 1..Len(spec_source) :
                                  spec_source[j].state = "ok"}}

\* C18: when the loader yields zero entries the run aborts in LoadAllSpecs:
\* DecomposeQuery and every later node never run, no task is created and no
\* answer is stored.  The loader itself returns the empty mapping without
\* raising; missing files are skipped, the other files are loaded.
C18_EmptyCatalogFatal ==
    \A k \in Runs("LoadAllSpecs") :
      LET spec_source == trace[k].in.source
      IN /\ DOMAIN load_all_specs_from_source(spec_source) = UsableIds(spec_source)
         /\ UsableIds(spec_source) # {} => DOMAIN loaded_specs = UsableIds(spec_source)
         /\ UsableIds(spec_source) = {}
              => /\ trace[k].action = "raise"
                 /\ Len(trace) = 1 /\ node = "FAILED"
                 /\ raised = Some([node |-> "LoadAllSpecs", phase |-> "exec"])
                 /\ loaded_specs = <<>>
                 /\ sub_tasks = <<>>
                 /\ final_summary = None

\* The run was aborted for a source whose only file is missing
C18_Witness ==
    /\ node = "FAILED"
    /\ \E k \in Runs("LoadAllSpecs") :
         /\ trace[k].in.source # <<>>
         /\ \A i \in 1..Len(trace[k].in.source) :
              trace[k].in.source[i].state = "missing"

\* C19: for every HTTP response the executor receives, a status outside
\* 200..299 yields an outcome with a non-empty error and the server's status
\* and body kept; a transport failure yields a non-empty error; only a 2xx
\* response yields an outcome with the error unset.
C19_Non2xxHasError ==
    \A k \in Runs("ExecuteAPI") :
      trace[k].in.called /\ trace[k].action # "raise"
        => LET o == Outcome(k)
               http == trace[k].in.http
               is2xx == ~http.transport /\ http.status >= 200 /\ http.status <= 299
           IN /\ http.transport => o.error # None /\ o.error[1] # <<>>
              /\ ~http.transport /\ ~is2xx
                   => /\ o.error # None /\ o.error[1] # <<>>
                      /\ o.status_code = Some(http.status)
                      /\ o.body = http.body
              /\ o.error = None => is2xx

\* The runs of node n for the task with the given id in which the node's
\* collaborator was called
CallsFor(n, id) ==
    {k \in Runs(n) : trace[k].in.called /\ trace[k].task = Some(id)}

\* C20: no task is retried: each task id becomes the current task at most
\* once, and for each task the selection call, the preparation call and the
\* executor call are each made at most once.
C20_NoRetry ==
    \A i \in 1..Len(sub_tasks) :
      LET id == sub_tasks[i].id
      IN /\ Cardinality({k \in Runs("SelectSpec") :
                           /\ trace[k].action # "summarize"
                           /\ trace[k].task = Some(id)}) <= 1
         /\ \A n \in {"SelectSpec", "FindAndPrepareApi", "ExecuteAPI"} :
              Cardinality(CallsFor(n, id)) <= 1

\* Two tasks went through selection, preparation and execution; the first
\* failed in execution and was not taken up again
C20_Witness ==
    /\ node = "END"
    /\ Len(sub_tasks) = 2
    /\ sub_tasks[1].status = "error"
    /\ \A i \in 1..2 :
         \A n \in {"SelectSpec", "FindAndPrepareApi", "ExecuteAPI"} :
           Cardinality(CallsFor(n, sub_tasks[i].id)) = 1

\* The node that ran before the k-th node run ("START" for the first)
NodeBefore(k) == IF k = 1 THEN "START" ELSE trace[k - 1].node

\* C21: every run is LoadAllSpecs, DecomposeQuery, then repeatedly SelectSpec
\* optionally followed by FindAndPrepareApi optionally followed by
\* ExecuteAPI, and finally SummarizeResults.  FindAndPrepareApi runs only
\* right after SelectSpec, ExecuteAPI only right after FindAndPrepareApi,
\* and after ExecuteAPI finalizes the next node is SelectSpec.
C21_StepOrder ==
    \A k \in DOMAIN trace :
      LET n == trace[k].node
      IN /\ n = "LoadAllSpecs" <=> k = 1
         /\ n = "DecomposeQuery" <=> k = 2
         /\ n = "SelectSpec"
              => NodeBefore(k) \in {"DecomposeQuery", "SelectSpec",
                                    "FindAndPrepareApi", "ExecuteAPI"}
         /\ n = "FindAndPrepareApi" => NodeBefore(k) = "SelectSpec"
         /\ n = "ExecuteAPI" => NodeBefore(k) = "FindAndPrepareApi"
         /\ n = "SummarizeResults"
              => NodeBefore(k) = "SelectSpec" /\ k = Len(trace)
         /\ n = "ExecuteAPI" /\ trace[k].action # "raise"
              => NodeAfter(k) = "SelectSpec"

\* A finished run in which ExecuteAPI finalized once with a success and once
\* with a failure
C21_Witness ==
    /\ node = "END"
    /\ \E k \in Runs("ExecuteAPI") : TaskOfRun(k).status = "completed"
    /\ \E k \in Runs("ExecuteAPI") : TaskOfRun(k).status = "error"

\* The action labels the nodes other than SummarizeResults return
LoopLabels ==
    {"default", "process_task", "spec_selected", "summarize",
     "process_task_loop", "execute"}

\* C22: SummarizeResults is entered only from SelectSpec and only when no
\* task is pending, and a run that ends without a fault ends only at
\* SummarizeResults: every label another node returns has an edge from that
\* node, so no other node ends the run by returning an unmatched label.
C22_EndsOnlyAtSynthesizer ==
    /\ node = "SummarizeResults"
         => /\ trace[Len(trace)].node = "SelectSpec"
            /\ PendingCount(sub_tasks) = 0
    /\ \A k \in Runs("SummarizeResults") :
         /\ NodeBefore(k) = "SelectSpec"
         /\ trace[k].pending = 0
    /\ node = "END" => trace[Len(trace)].node = "SummarizeResults"
    /\ \A k \in DOMAIN trace :
         trace[k].node # "SummarizeResults" /\ trace[k].action # "raise"
           => /\ trace[k].action \in LoopLabels
              /\ NodeAfter(k) \notin {"END", "FAILED"}

\* A finished run in which every label was returned
C22_Witness ==
    /\ node = "END"
    /\ \A l \in LoopLabels : \E k \in DOMAIN trace : trace[k].action = l

\* C23: tasks are processed in id order: whenever SelectSpec makes task j
\* the current task, every task with a smaller id is already completed or
\* error, and j is the smallest id among the pending tasks.
C23_IdOrder ==
    [][ node = "SelectSpec" /\ trace'[Len(trace')].action # "summarize"
          => /\ current_task_id' # None
             /\ \A i \in 1..Len(sub_tasks) :
                  /\ sub_tasks[i].id < current_task_id'[1]
                       => Finished(sub_tasks[i].status)
                  /\ sub_tasks[i].id = current_task_id'[1]
                       => sub_tasks[i].status = "pending"
             /\ \E i \in 1..Len(sub_tasks) :
                  sub_tasks[i].id = current_task_id'[1] ]_vars

\* SelectSpec made the second task current after the first was finished
C23_Witness ==
    /\ trace # <<>>
    /\ trace[Len(trace)].node = "SelectSpec"
    /\ trace[Len(trace)].action = "spec_selected"
    /\ current_task_id = Some(2)
    /\ Len(sub_tasks) = 2 /\ Finished(sub_tasks[1].status)

\* The parsed description of the catalog entry selected for the task of the
\* k-th node run
SpecOfRun(k) == loaded_specs[TaskOfRun(k).selected_spec_id[1]].parsed

\* The causes of failure of a FindAndPrepareApi run, from what it received
NoBlock(k) == ~trace[k].in.parsed.isdict

KeyAbsent(k) ==
    /\ trace[k].in.parsed.isdict
    /\ \E key \in {"method", "path", "server_base_url", "parameters"} :
         key \notin trace[k].in.parsed.keys

NoBaseUrl(k) ==
    /\ trace[k].in.parsed.server_base_url \in {None, Some(<<>>)}
    /\ SpecOfRun(k).servers = <<>>

PrepFailure(k) ==
    \/ CarriesMarker(trace[k].in.response)
    \/ NoBlock(k)
    \/ KeyAbsent(k)
    \/ NoBaseUrl(k)
    \/ FillMePathParam(trace[k].in)

\* C24: in FindAndPrepareApi every failure (collaborator error, no
\* well-formed block, a required key absent, no determinable base URL,
\* unresolved path parameter) marks the current task error with the cause,
\* leaves api_details absent and routes to SelectSpec; only on success are
\* api_details with a non-empty URL stored and the route is to ExecuteAPI,
\* with the task still pending.
C24_PrepareFailureOrDescriptor ==
    \A k \in Runs("FindAndPrepareApi") :
      trace[k].in.called
        => LET task == TaskOfRun(k)
           IN /\ PrepFailure(k)
                   => /\ trace[k].action = "process_task_loop"
                      /\ task.status = "error" /\ task.api_details = None
                      /\ task.error # None /\ task.error[1] # <<>>
                      /\ NodeAfter(k) = "SelectSpec"
              /\ CarriesMarker(trace[k].in.response)
                   => task.error[1][1] = "LLM error during API detail extraction: "
              /\ ~CarriesMarker(trace[k].in.response) /\ (NoBlock(k) \/ KeyAbsent(k))
                   => task.error[1][1] = "Error parsing LLM response: "
              /\ trace[k].action = "execute"
                   => /\ ~PrepFailure(k)
                      /\ task.api_details # None
                      /\ task.api_details[1].url # <<>>
                      /\ NodeAfter(k) = "ExecuteAPI"
                      /\ Len(trace) = k => task.status = "pending"
              /\ trace[k].action # "execute" => task.api_details = None

\* One task failed for a missing base URL, another was prepared
C24_Witness ==
    /\ \E k \in Runs("FindAndPrepareApi") :
         /\ trace[k].in.called /\ NoBaseUrl(k)
         /\ ~KeyAbsent(k) /\ ~NoBlock(k)
         /\ TaskOfRun(k).status = "error"
    /\ \E k \in Runs("FindAndPrepareApi") :
         /\ k = Len(trace)
         /\ trace[k].action = "execute"
         /\ TaskOfRun(k).status = "pending"

NoBaseUrlMessage == <<"Could not determine server base URL from LLM or spec.">>

\* The block of the k-th node run gives no base URL: the key is left out, or
\* its value is empty or null
BlockWithoutBase(k) ==
    /\ trace[k].in.parsed.isdict
    /\ \/ "server_base_url" \notin trace[k].in.parsed.keys
       \/ trace[k].in.parsed.server_base_url \in {None, Some(<<>>)}

\* C25 (as stated): when the block omits the base URL, FindAndPrepareApi
\* uses the first entry of the spec's servers list and preparation succeeds;
\* the task fails for a missing URL only when neither gives a URL.
C25_OmittedBaseFallsBack ==
    \A k \in Runs("FindAndPrepareApi") :
      /\ ( /\ trace[k].in.called /\ BlockWithoutBase(k)
           /\ ~CarriesMarker(trace[k].in.response)
           /\ ~FillMePathParam(trace[k].in)
           /\ SpecOfRun(k).servers # <<>> )
           => /\ trace[k].action = "execute"
              /\ OneSlashJoin(TaskOfRun(k).api_details[1].url,
                              SpecOfRun(k).servers[1].url[1], JoinedPath(k))
      /\ TaskOfRun(k).error = Some(NoBaseUrlMessage) => NoBaseUrl(k)

\* C25 (amended): the fallback applies when the block holds the base URL key
\* with an empty or null value; a block that leaves the key out fails as a
\* block with a required key absent, whatever the spec declares.
C25_EmptyBaseFallsBack ==
    \A k \in Runs("FindAndPrepareApi") :
      /\ ( /\ trace[k].in.called /\ BlockWithoutBase(k) /\ ~KeyAbsent(k)
           /\ ~CarriesMarker(trace[k].in.response)
           /\ ~FillMePathParam(trace[k].in)
           /\ SpecOfRun(k).servers # <<>> )
           => /\ trace[k].action = "execute"
              /\ OneSlashJoin(TaskOfRun(k).api_details[1].url,
                              SpecOfRun(k).servers[1].url[1], JoinedPath(k))
      /\ TaskOfRun(k).error = Some(NoBaseUrlMessage) <=>
           (trace[k].in.called /\ NoBaseUrl(k) /\ ~NoBlock(k) /\ ~KeyAbsent(k)
              /\ ~CarriesMarker(trace[k].in.response))
      /\ ( trace[k].in.called /\ KeyAbsent(k)
             /\ ~CarriesMarker(trace[k].in.response) )
           => /\ trace[k].action = "process_task_loop"
              /\ TaskOfRun(k).error
                   = Some(<<"Error parsing LLM response: ",
                            "Parsed YAML from LLM is missing required keys.">>)

\* A block with an empty base URL was completed from the spec's servers
\* list, and the same kind of block failed for a spec without servers
C25_Witness ==
    /\ \E k \in Runs("FindAndPrepareApi") :
         /\ trace[k].action = "execute"
         /\ trace[k].in.parsed.server_base_url = Some(<<>>)
         /\ TaskOfRun(k).api_details[1].url
              = <<"https://spec.example.com", "/", "items">>
    /\ \E k \in Runs("FindAndPrepareApi") :
         TaskOfRun(k).error = Some(NoBaseUrlMessage)

\* C26: when SelectSpec's response exactly equals a loaded catalog id, that
\* id is stored on the current task, the task stays pending and the next
\* node is FindAndPrepareApi; in every reachable state a task's selected
\* catalog id is absent or a key of the loaded catalog.
C26_ExactIdStored ==
    /\ \A k \in Runs("SelectSpec") :
         trace[k].in.called /\ trace[k].in.response \in DOMAIN loaded_specs
           => /\ trace[k].action = "spec_selected"
              /\ TaskOfRun(k).selected_spec_id = Some(trace[k].in.response)
              /\ NodeAfter(k) = "FindAndPrepareApi"
              /\ Len(trace) = k => TaskOfRun(k).status = "pending"
    /\ \A i \in 1..Len(sub_tasks) :
         \/ sub_tasks[i].selected_spec_id = None
         \/ sub_tasks[i].selected_spec_id[1] \in DOMAIN loaded_specs

\* SelectSpec has just stored an id it was given exactly, for the second
\* task, the first having none
C26_Witness ==
    /\ node = "FindAndPrepareApi"
    /\ trace[Len(trace)].in.response = ProductsId
    /\ Len(sub_tasks) = 2
    /\ sub_tasks[1].selected_spec_id = None
    /\ sub_tasks[2].selected_spec_id = Some(ProductsId)
    /\ sub_tasks[2].status = "pending"

\* C27: when the decomposition response is non-empty but has no line of the
\* form "<integer>. <text>", DecomposeQuery produces exactly one task with
\* id 1, the whole trimmed response as description and status pending, and
\* routes to the task loop.  (A response is taken to have no such line when
\* no line of it starts with "<integer>.".)
C27_WholeResponseAsOneTask ==
    \A k \in Runs("DecomposeQuery") :
      ( /\ trace[k].in.called
        /\ ~CarriesMarker(trace[k].in.response)
        /\ Strip(trace[k].in.response) # <<>>
        /\ NumberedTexts(trace[k].in.response) = <<>> )
        => /\ trace[k].action = "process_task"
           /\ NodeAfter(k) = "SelectSpec"
           /\ Len(sub_tasks) = 1
           /\ sub_tasks[1].id = 1
           /\ sub_tasks[1].description = Strip(trace[k].in.response)
           /\ Len(trace) = k
                => sub_tasks[1] = NewTask(1, Strip(trace[k].in.response))

\* A response of two lines, neither numbered, has become one task
C27_Witness ==
    /\ node = "SelectSpec"
    /\ Len(trace) = 2
    /\ trace[2].in.response = <<"Sure!", "\n", "Sure!">>
    /\ sub_tasks = <<NewTask(1, <<"Sure!", "\n", "Sure!">>)>>

\* The ids of a set in ascending order
Ascending(ids) ==
    CHOOSE q \in [1..Cardinality(ids) -> ids] :
      \A i, j \in 1..Cardinality(ids) : i < j => q[i] < q[j]

\* The part of the synthesis input for one task: its id, its description
\* and its serialized result
ResultBlock(id) ==
    <<"Task ", ToString(id), ": ">> \o TaskById(id).description
    \o <<"\nResult:\n">> \o JsonDumps(task_results[id])

RECURSIVE JoinBlocks(_)
JoinBlocks(ids) ==
    IF ids = <<>> THEN <<>>
    ELSE IF Len(ids) = 1 THEN ResultBlock(ids[1])
    ELSE ResultBlock(ids[1]) \o <<"\n\n">> \o JoinBlocks(Tail(ids))

\* C28: the input SummarizeResults builds holds, for exactly the tasks with
\* an entry in task_results, the task's description and serialized result,
\* by ascending task id; when task_results is empty it states that no
\* results were obtained.
C28_SynthesisInput ==
    node \in {"SummarizeResults", "END"}
      => LET input == FormattedResultsStr(sub_tasks, task_results)
         IN /\ input = IF DOMAIN task_results = {}
                       THEN <<"No successful task results were obtained.">>
                       ELSE JoinBlocks(Ascending(DOMAIN task_results))
            /\ \A k \in MarkerRuns("SummarizeResults") :
                 \E m \in 1..Len(final_summary[1]) :
                   SubSeq(final_summary[1], m, Len(final_summary[1])) = input

\* Synthesis after a run of two tasks of which only the second has a result,
\* the synthesis call having failed (the answer embeds the input)
C28_Witness ==
    /\ node = "END"
    /\ Len(sub_tasks) = 2
    /\ MarkerRuns("SummarizeResults") # {}
    /\ DOMAIN task_results = {2}

\* A group of named values holds the placeholder token as a value
GroupHasFillMe(group) ==
    group # None /\ \E i \in 1..Len(group[1]) : group[1][i][2] = FillMe

\* A body holds the placeholder token
BodyHasFillMe(body) ==
    body # None /\ \E i \in 1..Len(body[1].value) : body[1].value[i] = "<FILL_ME>"

\* C29: the placeholder token in a query parameter, a header or a body
\* value does not fail preparation: FindAndPrepareApi stores api_details
\* with that value unchanged and routes the task to ExecuteAPI.
C29_FillMePassedThrough ==
    \A k \in Runs("FindAndPrepareApi") :
      ( /\ trace[k].in.called /\ ~PrepFailure(k)
        /\ LET p == trace[k].in.parsed.parameters[1]
           IN \/ GroupHasFillMe(p.query)
              \/ GroupHasFillMe(p.header)
              \/ BodyHasFillMe(p.body) )
        => /\ trace[k].action = "execute"
           /\ NodeAfter(k) = "ExecuteAPI"
           /\ TaskOfRun(k).api_details # None
           /\ TaskOfRun(k).api_details[1].params = trace[k].in.parsed.parameters[1].query
           /\ TaskOfRun(k).api_details[1].body = trace[k].in.parsed.parameters[1].body
           /\ Len(trace) = k
                => TaskOfRun(k).api_details[1].headers
                     = trace[k].in.parsed.parameters[1].header
           /\ GroupHasFillMe(trace[k].in.parsed.parameters[1].header)
                => GroupHasFillMe(TaskOfRun(k).api_details[1].headers)

\* A block with the token in its query, header and body groups was prepared
\* and the request made
C29_Witness ==
    \E k \in Runs("FindAndPrepareApi") :
      /\ trace[k].action = "execute"
      /\ GroupHasFillMe(TaskOfRun(k).api_details[1].params)
      /\ GroupHasFillMe(TaskOfRun(k).api_details[1].headers)
      /\ BodyHasFillMe(TaskOfRun(k).api_details[1].body)
      /\ \E e \in Runs("ExecuteAPI") :
           trace[e].task = trace[k].task /\ trace[e].action # "raise"

\* C30: after LoadAllSpecs has stored the catalog, no later node adds,
\* removes or changes a catalog entry: loaded_specs is unchanged for the
\* rest of the run.
C30_CatalogImmutable ==
    [][ node # "LoadAllSpecs" => loaded_specs' = loaded_specs ]_vars

\* A finished run in which every later node ran, with the catalog as loaded
C30_Witness ==
    /\ node = "END"
    /\ \A n \in {"DecomposeQuery", "SelectSpec", "FindAndPrepareApi",
                 "ExecuteAPI", "SummarizeResults"} : Runs(n) # {}
    /\ loaded_specs = load_all_specs_from_source(trace[1].in.source)
    /\ DOMAIN loaded_specs = {ProductsId, OrdersId}

\* A step of the task loop changes no task but the current one, and no
\* task's id or description; SelectSpec without a pending task changes
\* nothing in the shared store
TaskFrame ==
    /\ Len(sub_tasks') = Len(sub_tasks)
    /\ \A i \in 1..Len(sub_tasks) :
         /\ sub_tasks'[i].id = sub_tasks[i].id
         /\ sub_tasks'[i].description = sub_tasks[i].description
         /\ (current_task_id' # Some(sub_tasks[i].id)
               => sub_tasks'[i] = sub_tasks[i])
    /\ (node = "SelectSpec" /\ PendingCount(sub_tasks) = 0
          => UNCHANGED shared)

\* C31: after decomposition, each step of the task loop changes at most the
\* task whose id is the current task id: every other task is unchanged by
\* the step, and the length of the task list and every task's id and
\* description never change; when SelectSpec finds no pending task it
\* changes nothing in the shared store.
C31_OnlyCurrentTaskChanges ==
    [][(node \in LoopNodes \cup {"SummarizeResults"}) => TaskFrame]_vars

\* SelectSpec found no pending task after a run in which the first task was
\* completed and the second, the current one, failed in ExecuteAPI
C31_Witness ==
    /\ node = "SummarizeResults"
    /\ Len(sub_tasks) = 2
    /\ current_task_id = Some(2)
    /\ sub_tasks[1].status = "completed" /\ sub_tasks[1].result # None
    /\ sub_tasks[2].status = "error" /\ sub_tasks[2].api_details # None

\* The current task id names a task of the list that is pending and whose
\* selected spec id is a key of the catalog
CurrentTaskSelected ==
    \E i \in 1..Len(sub_tasks) :
      /\ current_task_id = Some(sub_tasks[i].id)
      /\ sub_tasks[i].status = "pending"
      /\ sub_tasks[i].selected_spec_id # None
      /\ sub_tasks[i].selected_spec_id[1] \in DOMAIN loaded_specs

\* The current task is pending and holds a descriptor with a non-empty URL
CurrentTaskPrepared ==
    \E i \in 1..Len(sub_tasks) :
      /\ current_task_id = Some(sub_tasks[i].id)
      /\ sub_tasks[i].status = "pending"
      /\ sub_tasks[i].api_details # None
      /\ sub_tasks[i].api_details[1].url # <<>>

\* C32: whenever FindAndPrepareApi begins, the current task id names an
\* existing task that is pending and has a selected spec id present in the
\* catalog; whenever ExecuteAPI begins, that task is in addition still
\* pending and has a descriptor with a non-empty URL; hence the prepare
\* phase of neither step ever raises in a run of the constructed flow.
C32_PrepNeverFails ==
    /\ node = "FindAndPrepareApi" => CurrentTaskSelected
    /\ node = "ExecuteAPI" => CurrentTaskSelected /\ CurrentTaskPrepared
    /\ raised # Some([node |-> "FindAndPrepareApi", phase |-> "prep"])
    /\ raised # Some([node |-> "ExecuteAPI", phase |-> "prep"])

\* ExecuteAPI is about to begin for the second task, after SelectSpec and
\* FindAndPrepareApi ran for it and the first task was already settled
C32_Witness ==
    /\ node = "ExecuteAPI"
    /\ Len(sub_tasks) = 2
    /\ current_task_id = Some(2)
    /\ sub_tasks[1].status # "pending"
    /\ sub_tasks[2].status = "pending"
    /\ sub_tasks[2].selected_spec_id # None
    /\ sub_tasks[2].api_details # None
    /\ Runs("FindAndPrepareApi") # {}

====
